---- MODULE Spec2Model ----
(***************************************************************************)
(* A model of cell_simulator.py: the Cell methods (update, can_split,      *)
(* split, is_dead, the radius assignment of draw) and the main loop        *)
(* (clock, event handling, the simulation tick, the draw pass).            *)
(*                                                                         *)
(* Reals are fixed-point integers:                                         *)
(*   positions   in 1/PosScale pixel                                       *)
(*   angles      in 1/AngScale radian                                      *)
(*   cell speed  in 1/SpeedScale pixel per tick                            *)
(*   time        in 1/TimeScale second                                     *)
(*   energy      in 1/EnScale energy point                                 *)
(*   a draw of random.random() is u in 0..UScale, standing for u/UScale    *)
(* Energy, time and speed are exact in these units.  Positions, headings   *)
(* and the values of sin, cos and atan2 are rounded to their unit, so a    *)
(* comparison (a wall test, the eating circle, the sign of the turn at     *)
(* +-pi, the truncation of the breathing radius) is decided as the code    *)
(* decides it except when the code's value lies within that rounding of    *)
(* the threshold; the inputs the specifications enumerate keep clear of    *)
(* such ties.                                                              *)
(* Every call of the random module is an explicit argument (a "draw") of   *)
(* the operator that models the calling code; the actions choose the draws *)
(* from small sets.  Cell.color is not modelled: nothing reads it but the  *)
(* renderer.  The QUIT event is not modelled: the model covers the run     *)
(* while `running` is True.                                                *)
(***************************************************************************)
EXTENDS Integers, Sequences, FiniteSets, TLC

\* ---------------------------------------------------------------- CONFIG
WIDTH == 900
HEIGHT == 600
FOOD_RADIUS == 4
INITIAL_CELLS == 8
CELL_MIN_RADIUS == 8
CELL_MAX_RADIUS == 18
ENERGY_FROM_FOOD == 20
SPLIT_ENERGY_THRESHOLD == 60
SPLIT_ENERGY_COST == 30
MAX_ENERGY == 100
MAX_FOOD == 200
CELL_SENSE_RADIUS == 120
\* CELL_MAX_TURN = 0.25 rad, in 1/AngScale rad
CELL_MAX_TURN == 2500
\* CELL_BASE_SPEED = 1.0 pixel per tick
CELL_BASE_SPEED == 1
\* ENERGY_LOSS_PER_SEC = 1.0 energy point per second
ENERGY_LOSS_PER_SEC == 1
\* margin = 5 (local of Cell.update)
MARGIN == 5
\* deque(maxlen=8)
TRAIL_MAXLEN == 8

\* ------------------------------------------------------------ fixed point
\* positions in 1/100 pixel, angles in 1/10000 radian
PosScale == 100
AngScale == 10000
UScale == 1000
\* speed = CELL_BASE_SPEED * (1 + (CELL_MAX_RADIUS - r) / (2*CELL_MAX_RADIUS)) is a
\* multiple of 1/(2*CELL_MAX_RADIUS); ten times finer keeps the product with a cosine
SpeedScale == 20 * CELL_MAX_RADIUS
\* dt = dt_ms/1000 * speed_multiplier, speed_multiplier a multiple of 1/4
TimeScale == 4000
\* 32 energy units per time unit: five successive halvings (splits) stay exact
EnScale == TimeScale * 32
\* math.sin and math.cos return values in 1/TrigScale
TrigScale == 10000

\* math.pi in 1/AngScale rad, and 2*math.pi: exactly twice math.pi, as in the code,
\* so that an angle of random()*2*pi with random() = 0.5 is math.pi
PI == 31416
TWO_PI == 2 * PI
HALF_PI == 15708

Abs(a) == IF a < 0 THEN -a ELSE a
Min(a, b) == IF a < b THEN a ELSE b
Max(a, b) == IF a > b THEN a ELSE b

\* a/b rounded to the nearest integer, halves upwards (b > 0); \div is the floor
RDiv(a, b) == (a + b \div 2) \div b

\* int(): truncation toward zero of a/b (b > 0)
Trunc(a, b) == IF a >= 0 THEN a \div b ELSE -((-a) \div b)

\* The sine and cosine series work in 1/SeriesScale rad on [0, pi/4]; QuarterPi,
\* HalfPiFine and TwoPiFine are pi/4, pi/2 and 2*pi in that unit.
SeriesScale == 50000
QuarterPi == 39270
HalfPiFine == 78540
TwoPiFine == 314159

\* x - x^3/3! + x^5/5! - x^7/7! for x in 0..QuarterPi, in 1/SeriesScale
SinSeries(x) ==
    LET x2 == RDiv(x * x, SeriesScale)
        x3 == RDiv(x2 * x, SeriesScale)
        x4 == RDiv(x2 * x2, SeriesScale)
        x5 == RDiv(x4 * x, SeriesScale)
        x6 == RDiv(x4 * x2, SeriesScale)
        x7 == RDiv(x6 * x, SeriesScale)
    IN  x - RDiv(x3, 6) + RDiv(x5, 120) - RDiv(x7, 5040)

\* 1 - x^2/2! + x^4/4! - x^6/6! + x^8/8! for x in 0..QuarterPi, in 1/SeriesScale
CosSeries(x) ==
    LET x2 == RDiv(x * x, SeriesScale)
        x4 == RDiv(x2 * x2, SeriesScale)
        x6 == RDiv(x4 * x2, SeriesScale)
        x8 == RDiv(x4 * x4, SeriesScale)
    IN  SeriesScale - RDiv(x2, 2) + RDiv(x4, 24) - RDiv(x6, 720) + RDiv(x8, 40320)

\* the sine of x in 0..HalfPiFine
SinQuad(x) == IF x <= QuarterPi THEN SinSeries(x) ELSE CosSeries(HalfPiFine - x)

\* the angle a (1/AngScale rad, any sign and size) reduced to [0, 2*pi), in
\* 1/SeriesScale rad.  a \div TWO_PI turns of TWO_PI/AngScale rad are taken off; each
\* is 0.0000146928 rad more than 2*pi, which is given back.
Reduce(a) ==
    LET K == a \div TWO_PI
        r == a % TWO_PI
    IN  (5 * r + RDiv(K * 73464, 100000)) % TwoPiFine

\* the sine of t in 0..TwoPiFine, by quadrant
SinFine(t) ==
    LET q == t \div HalfPiFine
        x == t % HalfPiFine
    IN  CASE q = 0 -> SinQuad(x)
          [] q = 1 -> SinQuad(HalfPiFine - x)
          [] q = 2 -> -SinQuad(x)
          [] q = 3 -> -SinQuad(HalfPiFine - x)
          [] OTHER -> SinQuad(x)

\* math.sin of a (1/AngScale rad, |a| < 10^9), in 1/TrigScale; within 0.0001 of
\* math.sin
Sin(a) == RDiv(SinFine(Reduce(a)), SeriesScale \div TrigScale)

\* math.cos of a (1/AngScale rad, |a| < 10^9), in 1/TrigScale; within 0.0001 of
\* math.cos
Cos(a) == RDiv(SinFine((Reduce(a) + HalfPiFine) % TwoPiFine), SeriesScale \div TrigScale)

\* The arctangent series works in 1/AtanScale; TanEighthPi is tan(pi/8) in that
\* unit, and QuarterPiAtan is pi/4.
AtanScale == 100000
TanEighthPi == 41421
QuarterPiAtan == 78540

\* n/d in 1/AtanScale for 0 <= n <= d, d > 0, by long division in two steps
Ratio(n, d) == ((n * 1000) \div d) * 100 + RDiv(((n * 1000) % d) * 100, d)

\* w - w^3/3 + w^5/5 - w^7/7 + w^9/9 - w^11/11 for w in 0..TanEighthPi
AtanSeries(w) ==
    LET w2  == RDiv(w * w, AtanScale)
        w3  == RDiv(w2 * w, AtanScale)
        w5  == RDiv(w3 * w2, AtanScale)
        w7  == RDiv(w5 * w2, AtanScale)
        w9  == RDiv(w7 * w2, AtanScale)
        w11 == RDiv(w9 * w2, AtanScale)
    IN  w - RDiv(w3, 3) + RDiv(w5, 5) - RDiv(w7, 7) + RDiv(w9, 9) - RDiv(w11, 11)

\* atan of y/x for 0 <= y <= x, x > 0, in 1/AtanScale rad: the series of y/x up to
\* tan(pi/8), and beyond it pi/4 - atan((x - y)/(x + y))
AtanOct(y, x) ==
    IF Ratio(y, x) <= TanEighthPi THEN AtanSeries(Ratio(y, x))
    ELSE QuarterPiAtan - AtanSeries(Ratio(x - y, x + y))

\* atan of y/x for x, y >= 0, not both 0, in 1/AtanScale rad: in [0, pi/2]
AtanQuad(y, x) == IF y <= x THEN AtanOct(y, x) ELSE 2 * QuarterPiAtan - AtanOct(x, y)

\* math.atan2(y, x) in 1/AngScale rad (|x|, |y| < 10^6), in [-pi, pi], within
\* 0.0001 rad of math.atan2; atan2(0, 0) = 0, and atan2(0, x) = pi for x < 0
Atan2(y, x) ==
    IF x = 0 /\ y = 0 THEN 0
    ELSE LET q == RDiv(AtanQuad(Abs(y), Abs(x)), AtanScale \div AngScale)
             h == IF x >= 0 THEN q ELSE PI - q
         IN  IF y >= 0 THEN h ELSE -h

\* random.uniform(a, b) = a + (b - a) * random(), with the draw u = random()*UScale
Uniform(a, b, u) == a + RDiv((b - a) * u, UScale)

\* ------------------------------------------------------------------ Food
\* id stands for the identity of the Python object
Food(id, x, y) == [id |-> id, x |-> x, y |-> y]

\* ------------------------------------------------------------------ Cell
\* Cell.__init__(x, y, radius): radius = 0 stands for None (both are falsy in
\* `radius if radius else random.randint(...)`).  d holds the draws of the
\* constructor: d.r = randint(CELL_MIN_RADIUS, CELL_MAX_RADIUS), d.ang = random(),
\* d.en the draw of uniform(20, 50), d.ph the draw of uniform(0, 2*pi).
\* id stands for the identity of the Python object.
Cell(id, x, y, radius, d) ==
    LET r == IF radius # 0 THEN radius ELSE d.r
    IN  [ id          |-> id,
          x           |-> x,
          y           |-> y,
          radius      |-> r,
          base_radius |-> r,
          angle       |-> RDiv(d.ang * TWO_PI, UScale),
          speed       |-> CELL_BASE_SPEED
                            * (SpeedScale + ((CELL_MAX_RADIUS - r) * SpeedScale)
                                               \div (CELL_MAX_RADIUS * 2)),
          energy      |-> (EnScale \div UScale) * Uniform(20 * UScale, 50 * UScale, d.en),
          trail       |-> << >>,
          time_offset |-> Uniform(0, TWO_PI, d.ph) ]

\* Beyond FarAway pixels along an axis a food item is out of the sensing radius and
\* of every eating range (a radius plus FOOD_RADIUS is at most 23).
FarAway == 2 * CELL_SENSE_RADIUS

\* (f.x - self.x)**2 + (f.y - self.y)**2, in squared position units.  Each
\* difference is cut at FarAway pixels, which keeps the sum in 32 bits; the code
\* compares d with CELL_SENSE_RADIUS**2, with (radius + FOOD_RADIUS)**2 and with a
\* min_d that is at most CELL_SENSE_RADIUS**2, all below FarAway**2.
Dist2(c, f) ==
    LET dx == Min(Abs(f.x - c.x), FarAway * PosScale)
        dy == Min(Abs(f.y - c.y), FarAway * PosScale)
    IN  dx * dx + dy * dy

\* sensing with `d <= min_d`: of two items equally near, the later one wins
RECURSIVE SenseFrom_LastWins(_, _, _, _, _)
SenseFrom_LastWins(c, foods, i, min_d, target) ==
    IF i > Len(foods) THEN target
    ELSE LET d == Dist2(c, foods[i])
         IN  IF (min_d = -1 \/ d <= min_d)
                /\ d <= (CELL_SENSE_RADIUS * PosScale) * (CELL_SENSE_RADIUS * PosScale)
             THEN SenseFrom_LastWins(c, foods, i + 1, d, i)
             ELSE SenseFrom_LastWins(c, foods, i + 1, min_d, target)

\* Cell.update, lines 95-101: the index of the steering target in foods, 0 for None.
\* min_d = -1 stands for float("inf").
RECURSIVE SenseFrom(_, _, _, _, _)
SenseFrom(c, foods, i, min_d, target) ==
    IF i > Len(foods) THEN target
    ELSE LET d == Dist2(c, foods[i])
         IN  IF (min_d = -1 \/ d < min_d)
                /\ d <= (CELL_SENSE_RADIUS * PosScale) * (CELL_SENSE_RADIUS * PosScale)
             THEN SenseFrom(c, foods, i + 1, d, i)
             ELSE SenseFrom(c, foods, i + 1, min_d, target)

Sense(c, foods) == SenseFrom(c, foods, 1, -1, 0)

\* TurnTowards without the clamp to CELL_MAX_TURN: the heading snaps to the target
TurnTowards_Snap(c, f) ==
    ((Atan2(f.y - c.y, f.x - c.x) - c.angle + PI) % TWO_PI) - PI

\* Cell.update, lines 103-109: the heading after steering.  jit is the draw of
\* random.uniform(-0.02, 0.02).
TurnTowards(c, f) ==
    LET desired == Atan2(f.y - c.y, f.x - c.x)
        diff    == ((desired - c.angle + PI) % TWO_PI) - PI
    IN  Max(-CELL_MAX_TURN, Min(CELL_MAX_TURN, diff))

Steer(c, foods, target, jit) ==
    IF target = 0 THEN c.angle + Uniform(-((2 * AngScale) \div 100), (2 * AngScale) \div 100, jit)
    ELSE c.angle + TurnTowards(c, foods[target])

\* Cell.update, lines 112-113
Move(c, angle) ==
    [c EXCEPT !.angle = angle,
              !.x = c.x + RDiv(Cos(angle) * c.speed * PosScale, TrigScale * SpeedScale),
              !.y = c.y + RDiv(Sin(angle) * c.speed * PosScale, TrigScale * SpeedScale)]

\* Cell.update, lines 116-124: the four wall tests in order; d.bl, d.br, d.bt, d.bb
\* are the draws of the four random.uniform calls
BounceLeft(c, d) ==
    IF c.x < MARGIN * PosScale
    THEN [c EXCEPT !.x = MARGIN * PosScale, !.angle = Uniform(-HALF_PI, HALF_PI, d.bl)]
    ELSE c

BounceRight(c, d) ==
    IF c.x > (WIDTH - MARGIN) * PosScale
    THEN [c EXCEPT !.x = (WIDTH - MARGIN) * PosScale,
                   !.angle = Uniform(HALF_PI, 3 * HALF_PI, d.br)]
    ELSE c

BounceTop(c, d) ==
    IF c.y < MARGIN * PosScale
    THEN [c EXCEPT !.y = MARGIN * PosScale, !.angle = Uniform(0, PI, d.bt)]
    ELSE c

BounceBottom(c, d) ==
    IF c.y > (HEIGHT - MARGIN) * PosScale
    THEN [c EXCEPT !.y = (HEIGHT - MARGIN) * PosScale, !.angle = Uniform(-PI, 0, d.bb)]
    ELSE c

\* Bounce without the test of the bottom wall
Bounce_NoBottom(c, d) == BounceTop(BounceRight(BounceLeft(c, d), d), d)

Bounce(c, d) == BounceBottom(BounceTop(BounceRight(BounceLeft(c, d), d), d), d)

\* deque(maxlen=8).append
TrailAppend(trail, p) ==
    IF Len(trail) >= TRAIL_MAXLEN THEN Append(Tail(trail), p) ELSE Append(trail, p)

\* Cell.update, lines 130-132: the index of the first food item within eating
\* range, 0 when there is none
RECURSIVE EatIndexFrom(_, _, _)
EatIndexFrom(c, foods, i) ==
    IF i > Len(foods) THEN 0
    ELSE IF Dist2(c, foods[i])
              <= ((c.radius + FOOD_RADIUS) * PosScale) * ((c.radius + FOOD_RADIUS) * PosScale)
         THEN i
         ELSE EatIndexFrom(c, foods, i + 1)

\* an eating loop that takes the last item within range
EatIndex_Last(c, foods) ==
    LET S == { j \in 1..Len(foods) :
                 Dist2(c, foods[j]) <= ((c.radius + FOOD_RADIUS) * PosScale)
                                         * ((c.radius + FOOD_RADIUS) * PosScale) }
    IN  IF S = {} THEN 0 ELSE CHOOSE j \in S : \A k \in S : k <= j

EatIndex(c, foods) == EatIndexFrom(c, foods, 1)

\* del foods[i]
DelAt(s, i) == [k \in 1..(Len(s) - 1) |-> IF k < i THEN s[k] ELSE s[k + 1]]

\* Decay that forgets dt: one second's loss per tick
Decay_PerTick(c, dt) ==
    LET e == c.energy - ENERGY_LOSS_PER_SEC * EnScale
    IN  [c EXCEPT !.energy = IF e > MAX_ENERGY * EnScale THEN MAX_ENERGY * EnScale ELSE e]

\* Cell.update, lines 90-92: decay, then the clamp
Decay(c, dt) ==
    LET e == c.energy - ENERGY_LOSS_PER_SEC * dt * (EnScale \div TimeScale)
    IN  [c EXCEPT !.energy = IF e > MAX_ENERGY * EnScale THEN MAX_ENERGY * EnScale ELSE e]

\* Cell.update, lines 133-135
Eat(c) == [c EXCEPT !.energy = c.energy + ENERGY_FROM_FOOD * EnScale]

\* Cell.update(dt, foods, all_cells, time): the cell and the food list afterwards,
\* the return value (ate), and what the call did: target is the index of the
\* steering target in the food list before the call (0: none), hit whether a wall
\* test fired, eaten the index of the food item deleted (0: none), decayed the
\* energy after lines 90-92.
\* Steered is lines 90-113 (decay, sensing, steering, motion), Walled lines 116-127
\* (walls, trail), Finish lines 130-136 (eating) for the index i that EatIndex found.
\* (A value bound through a one-element set is evaluated once.)
Steered(c, dt, foods, d) ==
    CHOOSE r \in { [ cell |-> Move(c1, Steer(c1, foods, t, d.jit)), target |-> t ]
                   : c1 \in { Decay(c, dt) }, t \in { Sense(Decay(c, dt), foods) } } : TRUE

Walled(m, d) ==
    CHOOSE r \in { [ cell   |-> [c3 EXCEPT !.trail = TrailAppend(c3.trail, <<c3.x, c3.y>>)],
                     target |-> m.target,
                     hit    |-> (c3.x # m.cell.x \/ c3.y # m.cell.y) ]
                   : c3 \in { Bounce(m.cell, d) } } : TRUE

Advance(c, dt, foods, d) ==
    CHOOSE r \in { Walled(m, d) : m \in { Steered(c, dt, foods, d) } } : TRUE

\* Finish without `del foods[i]`: the item eaten stays in the collection
Finish_KeepFood(a, foods, i) ==
    [ cell   |-> IF i # 0 THEN Eat(a.cell) ELSE a.cell,
      foods  |-> foods,
      ate    |-> i # 0,
      target |-> a.target,
      hit    |-> a.hit,
      eaten  |-> i,
      decayed |-> a.cell.energy ]

Finish(a, foods, i) ==
    [ cell   |-> IF i # 0 THEN Eat(a.cell) ELSE a.cell,
      foods  |-> IF i # 0 THEN DelAt(foods, i) ELSE foods,
      ate    |-> i # 0,
      target |-> a.target,
      hit    |-> a.hit,
      eaten  |-> i,
      decayed |-> a.cell.energy ]

Eaten(a, foods) ==
    CHOOSE r \in { Finish(a, foods, i) : i \in { EatIndex(a.cell, foods) } } : TRUE

update(c, dt, foods, d) ==
    CHOOSE r \in { Eaten(a, foods) : a \in { Advance(c, dt, foods, d) } } : TRUE

\* can_split without the energy test
can_split_AnyEnergy(c) == c.radius >= CELL_MIN_RADIUS + 1

\* Cell.can_split
can_split(c) ==
    c.energy >= SPLIT_ENERGY_THRESHOLD * EnScale /\ c.radius >= CELL_MIN_RADIUS + 1

\* split whose child takes half the parent's energy, the cost not deducted
split_NoCost(c, d, id) ==
    LET e1    == c.energy \div 2 - (SPLIT_ENERGY_COST * EnScale) \div 2
        nx    == c.x + Uniform(-(c.radius * 2 * PosScale), c.radius * 2 * PosScale, d.ox)
        ny    == c.y + Uniform(-(c.radius * 2 * PosScale), c.radius * 2 * PosScale, d.oy)
        child == Cell(id, nx, ny, Max(CELL_MIN_RADIUS, Trunc(c.radius * 9, 10)), d)
    IN  IF e1 < 5 * EnScale
        THEN [ cell |-> [c EXCEPT !.energy = e1 + e1], ok |-> FALSE, child |-> c ]
        ELSE [ cell  |-> [c EXCEPT !.energy = e1],
               ok    |-> TRUE,
               child |-> [child EXCEPT !.energy = Max(5 * EnScale, c.energy \div 2)] ]

\* split that offsets the child by up to 4 radii in place of 2
split_FarChild(c, d, id) ==
    LET child_energy == c.energy \div 2 - (SPLIT_ENERGY_COST * EnScale) \div 2
        nx           == c.x + Uniform(-(c.radius * 4 * PosScale), c.radius * 4 * PosScale, d.ox)
        ny           == c.y + Uniform(-(c.radius * 4 * PosScale), c.radius * 4 * PosScale, d.oy)
        child        == Cell(id, nx, ny, Max(CELL_MIN_RADIUS, Trunc(c.radius * 9, 10)), d)
    IN  IF child_energy < 5 * EnScale
        THEN [ cell |-> [c EXCEPT !.energy = child_energy + child_energy], ok |-> FALSE,
               child |-> c ]
        ELSE [ cell  |-> [c EXCEPT !.energy = child_energy],
               ok    |-> TRUE,
               child |-> [child EXCEPT !.energy = Max(5 * EnScale, child_energy)] ]

\* Cell.split: the parent afterwards and the child (ok = FALSE: None was returned,
\* child is then meaningless).  d holds the draws: d.ox, d.oy of the two
\* random.uniform(-2r, 2r) calls and those of the child's constructor.
split(c, d, id) ==
    LET child_energy == c.energy \div 2 - (SPLIT_ENERGY_COST * EnScale) \div 2
        e1           == c.energy \div 2 - (SPLIT_ENERGY_COST * EnScale) \div 2
        nx           == c.x + Uniform(-(c.radius * 2 * PosScale), c.radius * 2 * PosScale, d.ox)
        ny           == c.y + Uniform(-(c.radius * 2 * PosScale), c.radius * 2 * PosScale, d.oy)
        child        == Cell(id, nx, ny, Max(CELL_MIN_RADIUS, Trunc(c.radius * 9, 10)), d)
    IN  IF e1 < 5 * EnScale
        THEN [ cell |-> [c EXCEPT !.energy = e1 + child_energy], ok |-> FALSE, child |-> c ]
        ELSE [ cell  |-> [c EXCEPT !.energy = e1],
               ok    |-> TRUE,
               child |-> [child EXCEPT !.energy = Max(5 * EnScale, child_energy)] ]

\* is_dead with a strict comparison: a cell at exactly 0 energy lives on
is_dead_Strict(c) == c.energy < 0 \/ c.radius <= 0

\* Cell.is_dead
is_dead(c) == c.energy <= 0 \/ c.radius <= 0

\* draw with a breathing amplitude of 0.25 in place of 0.08
draw_Deep(c, time) ==
    LET phase == RDiv(3 * time * (AngScale \div 2000), TimeScale \div 2000) + c.time_offset
    IN  [c EXCEPT !.radius = Trunc(c.base_radius * (100 * TrigScale + 25 * Sin(phase)), 100 * TrigScale)]

\* Cell.draw, lines 163-164: the breathing radius at simulation time `time`;
\* time*3 in 1/AngScale rad is time * 3 * AngScale/TimeScale
draw(c, time) ==
    LET phase == RDiv(3 * time * (AngScale \div 2000), TimeScale \div 2000) + c.time_offset
    IN  [c EXCEPT !.radius = Trunc(c.base_radius * (100 * TrigScale + 8 * Sin(phase)), 100 * TrigScale)]

\* ------------------------------------------------------------ SIMULATION
VARIABLES
    cells,             \* the live collection (line 199)
    foods,             \* the food collection (line 200)
    total_births,      \* line 201
    paused,            \* line 202
    speed_multiplier,  \* line 203, in quarters: 4 stands for 1.0
    time_accum,        \* line 204, in 1/TimeScale s
    dt,                \* line 211, the current frame's dt, in 1/TimeScale s
    pc,                \* where the main loop stands: "clock" (line 210) or "events" (line 214)
    next_id,           \* the identity the next Cell object gets
    frames,            \* frames begun so far
    events,            \* events handled so far
    removed,           \* cells removed as dead since the last reset (history)
    clicks,            \* left clicks handled so far
    resets,            \* R keys handled so far
    last               \* what the latest step did (history, read by the properties only)

vars == << cells, foods, total_births, paused, speed_multiplier, time_accum, dt, pc,
           next_id, frames, events, removed, clicks, resets, last >>

\* the cells of `[Cell(random.uniform(50, WIDTH-50), random.uniform(50, HEIGHT-50))
\* for _ in range(INITIAL_CELLS)]` (lines 199 and 226); D[k] holds the draws of the
\* k-th cell: D[k].ux, D[k].uy of the two uniform calls, the rest of the constructor
Population(D, first_id) ==
    [k \in 1..INITIAL_CELLS |->
        Cell(first_id + k - 1,
             Uniform(50 * PosScale, (WIDTH - 50) * PosScale, D[k].ux),
             Uniform(50 * PosScale, (HEIGHT - 50) * PosScale, D[k].uy),
             0, D[k])]

\* lines 247-255, the body of the per-cell loop for the cell at index i.
\* st is the loop's state: cells (the list being iterated, its objects mutated in
\* place), foods, new_cells, dead_indices, total_births, next_id, and log, one
\* entry per cell visited.  D[i] holds the draws made while cell i is visited;
\* random.random() < 0.02 is D[i].trial < 20.
\* VisitResult that updates a child in the tick of its birth
VisitResult_UpdatesChild(st, i, dt_, c0, u, tried, s) ==
    LET c1    == IF tried THEN s.cell ELSE u.cell
        born  == tried /\ s.ok
        dead  == is_dead(IF tried THEN s.cell ELSE u.cell)
        m     == Move(Decay(s.child, dt_), s.child.angle)
    IN  [ cells        |-> [st.cells EXCEPT ![i] = c1],
          foods        |-> u.foods,
          new_cells    |-> IF born
                           THEN Append(st.new_cells,
                                       [m EXCEPT !.trail = TrailAppend(m.trail, <<m.x, m.y>>)])
                           ELSE st.new_cells,
          dead_indices |-> IF dead THEN Append(st.dead_indices, i) ELSE st.dead_indices,
          total_births |-> IF born THEN st.total_births + 1 ELSE st.total_births,
          next_id      |-> IF born THEN st.next_id + 1 ELSE st.next_id,
          log          |-> Append(st.log,
                             [ id |-> c0.id, before |-> c0.energy, after |-> c1.energy,
                               decayed |-> u.decayed, eaten_energy |-> u.cell.energy,
                               ate |-> u.ate, eaten |-> u.eaten, target |-> u.target,
                               food |-> IF u.eaten # 0 THEN st.foods[u.eaten].id ELSE 0,
                               hit |-> u.hit, tried |-> tried, born |-> born,
                               child |-> IF born THEN s.child.id ELSE 0,
                               dead |-> dead ]) ]

\* the effect of lines 248-255 on the loop's state, given the result u of update,
\* whether a split is attempted (tried) and the result s of split
VisitResult(st, i, dt_, c0, u, tried, s) ==
    LET c1    == IF tried THEN s.cell ELSE u.cell
        born  == tried /\ s.ok
        dead  == is_dead(IF tried THEN s.cell ELSE u.cell)
    IN  [ cells        |-> [st.cells EXCEPT ![i] = c1],
          foods        |-> u.foods,
          new_cells    |-> IF born THEN Append(st.new_cells, s.child) ELSE st.new_cells,
          dead_indices |-> IF dead THEN Append(st.dead_indices, i) ELSE st.dead_indices,
          total_births |-> IF born THEN st.total_births + 1 ELSE st.total_births,
          next_id      |-> IF born THEN st.next_id + 1 ELSE st.next_id,
          log          |-> Append(st.log,
                             [ id |-> c0.id, before |-> c0.energy, after |-> c1.energy,
                               decayed |-> u.decayed, eaten_energy |-> u.cell.energy,
                               ate |-> u.ate, eaten |-> u.eaten, target |-> u.target,
                               food |-> IF u.eaten # 0 THEN st.foods[u.eaten].id ELSE 0,
                               hit |-> u.hit, tried |-> tried, born |-> born,
                               child |-> IF born THEN s.child.id ELSE 0,
                               dead |-> dead ]) ]

Visited(st, i, dt_, D, u) ==
    CHOOSE r \in { VisitResult(st, i, dt_, st.cells[i], u, tried, s)
                   : tried \in { can_split(u.cell) /\ D[i].trial * 100 < 2 * UScale },
                     s \in { split(u.cell, D[i], st.next_id) } } : TRUE

VisitCell(st, i, dt_, D) ==
    CHOOSE r \in { Visited(st, i, dt_, D, u)
                   : u \in { update(st.cells[i], dt_, st.foods, D[i]) } } : TRUE

RECURSIVE VisitFrom(_, _, _, _)
VisitFrom(st, i, dt_, D) ==
    IF i > Len(st.cells) THEN st
    ELSE CHOOSE r \in { VisitFrom(nx, i + 1, dt_, D) : nx \in { VisitCell(st, i, dt_, D) } } : TRUE

\* is idx one of dead_indices
InSeq(x, s) == \E k \in 1..Len(s) : s[k] = x

\* [c for idx, c in enumerate(cells) if idx not in dead_indices]
RECURSIVE Survivors(_, _, _)
Survivors(cs, dead_indices, i) ==
    IF i > Len(cs) THEN << >>
    ELSE IF InSeq(i, dead_indices) THEN Survivors(cs, dead_indices, i + 1)
         ELSE << cs[i] >> \o Survivors(cs, dead_indices, i + 1)

\* the end of the tick without the removal of the dead
Apply_KeepsDead(st) == st.cells \o st.new_cells

\* lines 256-258
Apply(st) ==
    (IF st.dead_indices # << >> THEN Survivors(st.cells, st.dead_indices, 1) ELSE st.cells)
        \o st.new_cells

\* lines 245-258: one unpaused tick
Pass(cs, fs, births, nid, dt_, D) ==
    VisitFrom([ cells |-> cs, foods |-> fs, new_cells |-> << >>, dead_indices |-> << >>,
                total_births |-> births, next_id |-> nid, log |-> << >> ], 1, dt_, D)

Tick(cs, fs, births, nid, dt_, D) ==
    CHOOSE r \in
        { [ cells |-> Apply(st), foods |-> st.foods, total_births |-> st.total_births,
            next_id |-> st.next_id, log |-> st.log, new_cells |-> st.new_cells,
            dead_indices |-> st.dead_indices, visited |-> st.cells ]
          : st \in { Pass(cs, fs, births, nid, dt_, D) } } : TRUE

\* lines 268-269: the draw pass sets every live cell's breathing radius
DrawAll(cs, time) == [k \in 1..Len(cs) |-> draw(cs[k], time)]

\* ------------------------------------------------------- enumerated inputs
\* frames the clock may begin and events the queue may deliver in one run
MaxFrames == 3
MaxEvents == 1
\* initial populations enumerated
NumSeeds == 2

\* clock.tick(FPS) in ms: a frame on schedule, and a stalled frame
DtSet == {16, 20000}

\* draws of one seeded cell: position, radius, heading, energy, breathing offset
SeedRows ==
    << [ux |-> 500,  uy |-> 500,  r |-> 10, ang |-> 0,   en |-> 900, ph |-> 0],
       [ux |-> 500,  uy |-> 500,  r |-> 12, ang |-> 500, en |-> 0,   ph |-> 250],
       [ux |-> 0,    uy |-> 0,    r |-> 8,  ang |-> 625, en |-> 500, ph |-> 500],
       [ux |-> 1000, uy |-> 1000, r |-> 18, ang |-> 125, en |-> 0,   ph |-> 750],
       [ux |-> 250,  uy |-> 750,  r |-> 9,  ang |-> 250, en |-> 999, ph |-> 100],
       [ux |-> 750,  uy |-> 250,  r |-> 15, ang |-> 750, en |-> 333, ph |-> 900],
       [ux |-> 510,  uy |-> 500,  r |-> 18, ang |-> 375, en |-> 667, ph |-> 400],
       [ux |-> 100,  uy |-> 900,  r |-> 13, ang |-> 875, en |-> 100, ph |-> 600] >>

\* the k-th cell of population s draws row k + s - 1 (cyclically)
SeedDraws(s) == [k \in 1..INITIAL_CELLS |-> SeedRows[((k + s - 2) % Len(SeedRows)) + 1]]

SeedSet == 1..NumSeeds

\* draws of one visit of the per-cell loop: the heading jitter, the split trial
\* (random.random() < 0.02 holds for 0, fails for 500), the four bounce headings,
\* the child's offset and the child's constructor
DrawSet ==
    { [jit |-> 0, trial |-> 0, bl |-> 500, br |-> 500, bt |-> 500, bb |-> 500,
       ox |-> 0, oy |-> 1000, r |-> 10, ang |-> 250, en |-> 500, ph |-> 750],
      [jit |-> 1000, trial |-> 500, bl |-> 250, br |-> 750, bt |-> 250, bb |-> 750,
       ox |-> 1000, oy |-> 500, r |-> 10, ang |-> 750, en |-> 0, ph |-> 250] }

\* the draws of a whole pass over n cells: every visit draws alike
TickDraws(n) == { [i \in 1..n |-> d] : d \in DrawSet }

\* event.pos of a left click, in pixels
ClickSet == { <<455, 310>>, <<60, 60>> }

\* draws of the ten Food(random.uniform(20, WIDTH-20), random.uniform(20, HEIGHT-20))
\* of the F key: a batch just below the middle of the world
FoodBatches == { [k \in 1..10 |-> [ux |-> 500 + (k % 3), uy |-> 505]] }

\* ---------------------------------------------------------------- MAIN LOOP
Init ==
    /\ \E s \in SeedSet : cells = Population(SeedDraws(s), 1)
    /\ foods = << >>
    /\ total_births = 0
    /\ paused = FALSE
    /\ speed_multiplier = 4
    /\ time_accum = 0
    /\ dt = 0
    /\ pc = "clock"
    /\ next_id = INITIAL_CELLS + 1
    /\ frames = 0
    /\ events = 0
    /\ removed = 0
    /\ clicks = 0
    /\ resets = 0
    /\ last = [kind |-> "init"]

\* lines 210-212
OnClockTick(dt_ms) ==
    /\ pc = "clock"
    /\ dt' = dt_ms * speed_multiplier
    /\ time_accum' = time_accum + dt_ms * speed_multiplier
    /\ pc' = "events"
    /\ frames' = frames + 1
    /\ last' = [kind |-> "clock", dt_ms |-> dt_ms]
    /\ UNCHANGED << cells, foods, total_births, paused, speed_multiplier, next_id, events, removed, clicks, resets >>

\* line 209: the loop begins one more frame
ClockTick(dt_ms) == frames < MaxFrames /\ OnClockTick(dt_ms)

\* lines 218-219
OnKeySpace ==
    /\ paused' = ~paused
    /\ events' = events + 1
    /\ last' = [kind |-> "space", prepaused |-> paused, prespeed |-> speed_multiplier]
    /\ UNCHANGED << cells, foods, total_births, speed_multiplier, time_accum, dt, pc,
                    next_id, frames, removed, clicks, resets >>

\* the UP key without the min(4.0, ...)
OnKeyUp_NoClamp ==
    /\ speed_multiplier' = speed_multiplier + 1
    /\ events' = events + 1
    /\ last' = [kind |-> "up", prepaused |-> paused, prespeed |-> speed_multiplier]
    /\ UNCHANGED << cells, foods, total_births, paused, time_accum, dt, pc, next_id, frames,
                    removed, clicks, resets >>

\* lines 220-221
OnKeyUp ==
    /\ speed_multiplier' = Min(16, speed_multiplier + 1)
    /\ events' = events + 1
    /\ last' = [kind |-> "up", prepaused |-> paused, prespeed |-> speed_multiplier]
    /\ UNCHANGED << cells, foods, total_births, paused, time_accum, dt, pc, next_id, frames, removed, clicks, resets >>

\* lines 222-223
OnKeyDown ==
    /\ speed_multiplier' = Max(1, speed_multiplier - 1)
    /\ events' = events + 1
    /\ last' = [kind |-> "down", prepaused |-> paused, prespeed |-> speed_multiplier]
    /\ UNCHANGED << cells, foods, total_births, paused, time_accum, dt, pc, next_id, frames, removed, clicks, resets >>

\* the R key without foods.clear()
OnKeyR_KeepsFood(s) ==
    /\ cells' = Population(SeedDraws(s), next_id)
    /\ total_births' = 0
    /\ next_id' = next_id + INITIAL_CELLS
    /\ events' = events + 1
    /\ removed' = 0
    /\ resets' = resets + 1
    /\ last' = [kind |-> "reset", pre |-> cells, prefoods |-> foods,
                prebirths |-> total_births, prepaused |-> paused,
                prespeed |-> speed_multiplier]
    /\ UNCHANGED << foods, paused, speed_multiplier, time_accum, dt, pc, frames, clicks >>

\* the R key without total_births = 0
OnKeyR_KeepsBirths(s) ==
    /\ cells' = Population(SeedDraws(s), next_id)
    /\ foods' = << >>
    /\ next_id' = next_id + INITIAL_CELLS
    /\ events' = events + 1
    /\ removed' = 0
    /\ resets' = resets + 1
    /\ last' = [kind |-> "reset", pre |-> cells, prefoods |-> foods,
                prebirths |-> total_births, prepaused |-> paused,
                prespeed |-> speed_multiplier]
    /\ UNCHANGED << total_births, paused, speed_multiplier, time_accum, dt, pc, frames, clicks >>

\* lines 224-226
OnKeyR(s) ==
    /\ cells' = Population(SeedDraws(s), next_id)
    /\ foods' = << >>
    /\ total_births' = 0
    /\ next_id' = next_id + INITIAL_CELLS
    /\ events' = events + 1
    /\ removed' = 0
    /\ resets' = resets + 1
    /\ last' = [kind |-> "reset", pre |-> cells, prefoods |-> foods,
                prebirths |-> total_births, prepaused |-> paused,
                prespeed |-> speed_multiplier]
    /\ UNCHANGED << paused, speed_multiplier, time_accum, dt, pc, frames, clicks >>

\* lines 228-229: B[k] holds the draws of the k-th Food of the batch
SpawnBatch(fs, B, first_id) ==
    fs \o [k \in 1..10 |->
             Food(first_id + k - 1,
                  Uniform(20 * PosScale, (WIDTH - 20) * PosScale, B[k].ux),
                  Uniform(20 * PosScale, (HEIGHT - 20) * PosScale, B[k].uy))]

\* lines 227-229
OnKeyF(B) ==
    /\ foods' = SpawnBatch(foods, B, next_id)
    /\ next_id' = next_id + 10
    /\ events' = events + 1
    /\ last' = [kind |-> "spawn", prefoods |-> foods]
    /\ UNCHANGED << cells, total_births, paused, speed_multiplier, time_accum, dt, pc,
                    frames, removed, clicks, resets >>

\* lines 231-232: pos is event.pos, in pixels
SpawnAt(fs, pos, id) == Append(fs, Food(id, pos[1] * PosScale, pos[2] * PosScale))

\* lines 230-232
OnMouseClick(pos) ==
    /\ foods' = SpawnAt(foods, pos, next_id)
    /\ next_id' = next_id + 1
    /\ events' = events + 1
    /\ clicks' = clicks + 1
    /\ last' = [kind |-> "spawn", prefoods |-> foods]
    /\ UNCHANGED << cells, total_births, paused, speed_multiplier, time_accum, dt, pc,
                    frames, removed, resets >>

\* line 214: the event loop of the current frame delivers one more event
KeySpace == pc = "events" /\ events < MaxEvents /\ OnKeySpace
KeyUp == pc = "events" /\ events < MaxEvents /\ OnKeyUp
KeyDown == pc = "events" /\ events < MaxEvents /\ OnKeyDown
KeyR(s) == pc = "events" /\ events < MaxEvents /\ OnKeyR(s)
KeyF(B) == pc = "events" /\ events < MaxEvents /\ OnKeyF(B)
MouseClick(pos) == pc = "events" /\ events < MaxEvents /\ OnMouseClick(pos)

\* lines 244-269 with the simulation running: the tick, then the draw pass
FrameTick(D) ==
    /\ pc = "events"
    /\ ~paused
    /\ \E t \in { Tick(cells, foods, total_births, next_id, dt, D) } :
           /\ cells' = DrawAll(t.cells, time_accum)
           /\ foods' = t.foods
           /\ total_births' = t.total_births
           /\ next_id' = t.next_id
           /\ removed' = removed + Len(t.dead_indices)
           /\ last' = [ kind |-> "tick", pre |-> cells, prefoods |-> foods,
                        prebirths |-> total_births, dt |-> dt,
                        log |-> t.log, visited |-> t.visited, after |-> t.cells,
                        new_cells |-> t.new_cells, dead_indices |-> t.dead_indices ]
    /\ pc' = "clock"
    /\ UNCHANGED << paused, speed_multiplier, time_accum, dt, frames, events, clicks,
                    resets >>

\* a paused frame that runs the tick all the same
FramePaused_Runs ==
    /\ pc = "events"
    /\ paused
    /\ \E D \in TickDraws(Len(cells)) :
         \E t \in { Tick(cells, foods, total_births, next_id, dt, D) } :
           /\ cells' = DrawAll(t.cells, time_accum)
           /\ foods' = t.foods
           /\ total_births' = t.total_births
           /\ next_id' = t.next_id
           /\ removed' = removed + Len(t.dead_indices)
    /\ last' = [kind |-> "paused", pre |-> cells, prefoods |-> foods,
                prebirths |-> total_births]
    /\ pc' = "clock"
    /\ UNCHANGED << paused, speed_multiplier, time_accum, dt, frames, events, clicks,
                    resets >>

\* lines 244-269 while paused: the draw pass alone
FramePaused ==
    /\ pc = "events"
    /\ paused
    /\ cells' = DrawAll(cells, time_accum)
    /\ last' = [kind |-> "paused", pre |-> cells, prefoods |-> foods,
                prebirths |-> total_births]
    /\ pc' = "clock"
    /\ UNCHANGED << foods, total_births, paused, speed_multiplier, time_accum, dt,
                    next_id, frames, events, removed, clicks, resets >>

Next ==
    \/ \E dt_ms \in DtSet : ClockTick(dt_ms)
    \/ KeySpace
    \/ KeyUp
    \/ KeyDown
    \/ \E s \in SeedSet : KeyR(s)
    \/ \E B \in FoodBatches : KeyF(B)
    \/ \E pos \in ClickSet : MouseClick(pos)
    \/ \E D \in TickDraws(Len(cells)) : FrameTick(D)
    \/ FramePaused

Spec == Init /\ [][Next]_vars

\* ------------------------------------------------- a burst of spawn events
\* spawn events the queue may deliver in one frame
MaxBurst == 23

\* the F key, as often as the bound allows
BurstKeyF(B) == pc = "events" /\ events < MaxBurst /\ OnKeyF(B)

\* left clicks the queue may deliver in one run
MaxClicks == 2

\* a left click, at any food count, as often as the bound allows
BurstClick(pos) ==
    pc = "events" /\ events < MaxBurst /\ clicks < MaxClicks /\ OnMouseClick(pos)

NextSpawn ==
    \/ \E dt_ms \in DtSet : ClockTick(dt_ms)
    \/ \E B \in FoodBatches : BurstKeyF(B)
    \/ \E pos \in ClickSet : BurstClick(pos)

SpecSpawn == Init /\ [][NextSpawn]_vars

\* ------------------------------------- food, pause and reset keys with ticks
\* events the queue may deliver in one run of F, space and R keys
MaxPlay == 2

PlayKeyF(B) == pc = "events" /\ events < MaxPlay /\ OnKeyF(B)
PlayKeySpace == pc = "events" /\ events < MaxPlay /\ OnKeySpace
PlayKeyR(s) == pc = "events" /\ events < MaxPlay /\ OnKeyR(s)

NextPlay ==
    \/ \E dt_ms \in DtSet : ClockTick(dt_ms)
    \/ \E B \in FoodBatches : PlayKeyF(B)
    \/ PlayKeySpace
    \/ \E s \in SeedSet : PlayKeyR(s)
    \/ \E D \in TickDraws(Len(cells)) : FrameTick(D)
    \/ FramePaused

SpecPlay == Init /\ [][NextPlay]_vars

\* ------------------------------------------- a cell fed by clicks, with ticks
\* frames the clock may begin and left clicks the queue may deliver in one run of
\* clicks and ticks: three items eaten in three ticks take a cell above MAX_ENERGY,
\* and a fourth tick finds it there
MaxFeedFrames == 4
MaxFeedClicks == 3

\* the click position of the run: 11.2 px from the two cells that seed 1 puts at
\* (450, 300), within the eating range of either after its move
FeedSet == { <<455, 310>> }

FeedClockTick(dt_ms) == frames < MaxFeedFrames /\ OnClockTick(dt_ms)
FeedClick(pos) == pc = "events" /\ clicks < MaxFeedClicks /\ OnMouseClick(pos)

NextFeed ==
    \/ \E dt_ms \in DtSet : FeedClockTick(dt_ms)
    \/ \E pos \in FeedSet : FeedClick(pos)
    \/ \E D \in TickDraws(Len(cells)) : FrameTick(D)

SpecFeed == Init /\ [][NextFeed]_vars

\* --------------------------------------------- a burst of control keys
\* key events the queue may deliver in one run of UP, DOWN, space and R keys
MaxKeys == 13

HeldKeyUp == pc = "events" /\ events < MaxKeys /\ OnKeyUp
HeldKeyDown == pc = "events" /\ events < MaxKeys /\ OnKeyDown
HeldKeySpace == pc = "events" /\ events < MaxKeys /\ OnKeySpace
\* R keys the queue may deliver in one run
MaxResets == 2

\* the R key, on any population, as often as the bound allows
HeldKeyR(s) ==
    pc = "events" /\ events < MaxKeys /\ resets < MaxResets /\ OnKeyR(s)

\* the clock of the first two frames: the second reads the multiplier the keys of
\* the first have set
HeldClockTick(dt_ms) == frames < 2 /\ ClockTick(dt_ms)

NextKeys ==
    \/ \E dt_ms \in DtSet : HeldClockTick(dt_ms)
    \/ HeldKeyUp
    \/ HeldKeyDown
    \/ HeldKeySpace
    \/ \E s \in SeedSet : HeldKeyR(s)
    \/ FramePaused

SpecKeys == Init /\ [][NextKeys]_vars

\* ------------------------------------------------- the Cell methods alone
\* calls made on the cells in one run (counted in `frames`)
MaxCalls == 2

\* a cell as the program can hold it: in the middle, just inside each wall heading
\* anywhere, and outside the margin (where split may put a child)
PosInputs ==
    { <<45000, 30000>>, <<520, 30000>>, <<89480, 30000>>, <<45000, 520>>, <<45000, 59480>>,
      <<300, 300>>, <<89900, 59900>> }
\* the draw of the heading: 0, pi/2, pi, 3*pi/2
AngInputs == {0, 250, 500, 750}
RadiusInputs == {10, 18}
\* energy in half points: 0, 30, 39.5, 40, 60, 65, 100
EnergyInputs == {0, 60, 79, 80, 120, 130, 200}

CellInputs ==
    { [ Cell(1, p[1], p[2], r, [r |-> r, ang |-> a, en |-> 0, ph |-> 0])
        EXCEPT !.energy = e * (EnScale \div 2) ]
      : p \in PosInputs, r \in RadiusInputs, a \in AngInputs, e \in EnergyInputs }

\* no food; one item 50 pixels left of the middle; one near the left wall and one
\* in the middle; two within eating range of the middle, the nearer one second; two
\* at 50 pixels either side of the middle
FoodInputs ==
    { << >>,
      << Food(101, 40000, 30000) >>,
      << Food(102, 5000, 30000), Food(103, 45000, 30000) >>,
      << Food(104, 46000, 30000), Food(105, 45200, 30000) >>,
      << Food(106, 40000, 30000), Food(107, 50000, 30000) >> }

InitCell ==
    /\ cells \in { << c >> : c \in CellInputs }
    /\ foods \in FoodInputs
    /\ total_births = 0
    /\ paused = FALSE
    /\ speed_multiplier = 4
    /\ time_accum = 0
    /\ dt = 0
    /\ pc = "call"
    /\ next_id = 2
    /\ frames = 0
    /\ events = 0
    /\ removed = 0
    /\ clicks = 0
    /\ resets = 0
    /\ last = [kind |-> "init"]

\* c.update(dt, foods, cells, time) on the cell at index i
CallUpdate(i, dt_, d) ==
    /\ pc = "call"
    /\ frames < MaxCalls
    /\ \E u \in { update(cells[i], dt_, foods, d) } :
           /\ cells' = [cells EXCEPT ![i] = u.cell]
           /\ foods' = u.foods
           /\ last' = [ kind |-> "update", i |-> i, before |-> cells[i], prefoods |-> foods,
                        dt |-> dt_, ate |-> u.ate, target |-> u.target, hit |-> u.hit,
                        eaten |-> u.eaten ]
    /\ frames' = frames + 1
    /\ UNCHANGED << total_births, paused, speed_multiplier, time_accum, dt, pc, next_id,
                    events, removed, clicks, resets >>

\* child = c.split() on the cell at index i; the caller keeps the child
CallSplit(i, d) ==
    /\ pc = "call"
    /\ frames < MaxCalls
    /\ \E s \in { split(cells[i], d, next_id) } :
           /\ cells' = IF s.ok THEN Append([cells EXCEPT ![i] = s.cell], s.child)
                       ELSE [cells EXCEPT ![i] = s.cell]
           /\ next_id' = IF s.ok THEN next_id + 1 ELSE next_id
           /\ last' = [ kind |-> "split", i |-> i, before |-> cells[i], ok |-> s.ok,
                        children |-> IF s.ok THEN << s.child >> ELSE << >>,
                        could |-> can_split(cells[i]) ]
    /\ frames' = frames + 1
    /\ UNCHANGED << foods, total_births, paused, speed_multiplier, time_accum, dt, pc,
                    events, removed, clicks, resets >>

\* simulation times at which draw is called: 0.4 s, the breath near its top
\* (3t = 1.2 rad), and 1.4 s, near its bottom (3t = 4.2 rad)
TimeInputs == {1600, 5600}

\* c.draw(screen, time) on the cell at index i
CallDraw(i, time) ==
    /\ pc = "call"
    /\ frames < MaxCalls
    /\ cells' = [cells EXCEPT ![i] = draw(cells[i], time)]
    /\ last' = [kind |-> "draw", i |-> i, before |-> cells[i], time |-> time]
    /\ frames' = frames + 1
    /\ UNCHANGED << foods, total_births, paused, speed_multiplier, time_accum, dt, pc,
                    next_id, events, removed, clicks, resets >>

NextCell ==
    \/ \E i \in 1..Len(cells), dt_ms \in DtSet, d \in DrawSet : CallUpdate(i, dt_ms * 4, d)
    \/ \E i \in 1..Len(cells), d \in DrawSet : CallSplit(i, d)
    \/ \E i \in 1..Len(cells), time \in TimeInputs : CallDraw(i, time)

SpecCell == InitCell /\ [][NextCell]_vars

\* ------------------------------------------------------------- properties
\* what the properties read off a cell, stated on its fields
DeadNow(c) == c.energy <= 0 \/ c.radius <= 0
NotDeadNow(c) == ~DeadNow(c)
Ids(cs) == [k \in 1..Len(cs) |-> cs[k].id]
IdSet(cs) == { cs[k].id : k \in 1..Len(cs) }
Eaters(log) == { k \in 1..Len(log) : log[k].ate }
\* is the food item f within radius + FOOD_RADIUS of the cell c (an item farther
\* than that along one axis is not; the squares are taken only of the others)
InEatRange(c, f) ==
    /\ f.x - c.x <= (c.radius + FOOD_RADIUS) * PosScale
    /\ c.x - f.x <= (c.radius + FOOD_RADIUS) * PosScale
    /\ f.y - c.y <= (c.radius + FOOD_RADIUS) * PosScale
    /\ c.y - f.y <= (c.radius + FOOD_RADIUS) * PosScale
    /\ (f.x - c.x) * (f.x - c.x) + (f.y - c.y) * (f.y - c.y)
           <= ((c.radius + FOOD_RADIUS) * PosScale) * ((c.radius + FOOD_RADIUS) * PosScale)
\* the energy lost in a tick of length d (1/TimeScale s), in energy units
Loss(d) == ENERGY_LOSS_PER_SEC * d * (EnScale \div TimeScale)

\* C1 (as claimed): after any unpaused tick no cell of the live collection has
\* energy above MAX_ENERGY.
C1_EnergyClamp ==
    (last.kind = "tick") =>
        \A k \in 1..Len(cells) : cells[k].energy <= MAX_ENERGY * EnScale

\* C2: in one tick every food item is removed at most once and credited to at most
\* one cell: the items removed are exactly the items the cells that returned "ate"
\* took, one each and all different, every eater gains ENERGY_FROM_FOOD, and an
\* item goes to the earliest cell in iteration order that has it in eating range
\* (a later cell never takes an item an earlier cell in range of it left alone).
C2_EatingExclusivity ==
    (last.kind = "tick") =>
        /\ Len(last.prefoods) - Len(foods) = Cardinality(Eaters(last.log))
        /\ \A j, k \in Eaters(last.log) : j # k => last.log[j].food # last.log[k].food
        /\ IdSet(foods) = IdSet(last.prefoods) \ { last.log[k].food : k \in Eaters(last.log) }
        /\ \A k \in Eaters(last.log) :
               last.log[k].eaten_energy - last.log[k].decayed = ENERGY_FROM_FOOD * EnScale
        /\ \A k \in Eaters(last.log) : \A j \in 1..(k - 1) :
               \A i \in 1..Len(last.prefoods) :
                   (last.prefoods[i].id = last.log[k].food
                    /\ InEatRange(last.visited[j], last.prefoods[i]))
                   => last.log[j].ate

\* C2's case: a single food item, two cells within eating range of it in the same
\* tick, the earlier one ate it and the later one did not eat
C2_Witness ==
    /\ last.kind = "tick"
    /\ Len(last.prefoods) = 1
    /\ \E j, k \in 1..Len(last.log) :
           /\ j < k
           /\ last.log[j].ate
           /\ ~last.log[k].ate
           /\ InEatRange(last.visited[j], last.prefoods[1])
           /\ InEatRange(last.visited[k], last.prefoods[1])

\* C5: after an unpaused tick the live collection holds, in their order, exactly
\* the visited cells that were not dead (energy <= 0 or radius <= 0) after their
\* update and split attempt, followed by the tick's children.
C5_DeathRemoval ==
    (last.kind = "tick") =>
        /\ Ids(cells) = Ids(SelectSeq(last.visited, NotDeadNow)) \o Ids(last.new_cells)
        /\ \A k \in 1..Len(last.visited) :
               DeadNow(last.visited[k]) <=> (last.visited[k].id \notin IdSet(cells))

\* C5's case: a tick removed a cell that stood between two survivors, and a cell
\* whose energy was exactly 0
C5_Witness ==
    /\ last.kind = "tick"
    /\ \E i, j, k \in 1..Len(last.visited) :
           /\ i < j /\ j < k
           /\ last.visited[j].energy = 0
           /\ last.visited[i].id \in IdSet(cells)
           /\ last.visited[k].id \in IdSet(cells)
           /\ last.visited[j].id \notin IdSet(cells)

\* C6: the cells a tick visits are exactly the cells of the live collection at its
\* start, once each and in order (so no child of the tick is updated or tested in
\* it, and every child of an earlier tick is); the tick's children stand at the end
\* of the live collection, after the survivors, as split made them.
C6_TwoPhaseBirth ==
    (last.kind = "tick") =>
        /\ [k \in 1..Len(last.log) |-> last.log[k].id] = Ids(last.pre)
        /\ \A j \in 1..Len(last.new_cells) :
               /\ last.new_cells[j].id \notin IdSet(last.pre)
               /\ last.new_cells[j].trail = << >>
        /\ Len(last.after) >= Len(last.new_cells)
        /\ SubSeq(last.after, Len(last.after) - Len(last.new_cells) + 1, Len(last.after))
               = last.new_cells
        /\ Ids(cells) = Ids(last.after)

\* C6's case: a tick in which a cell was born and a cell died
C6_Witness ==
    /\ last.kind = "tick"
    /\ last.new_cells # << >>
    /\ last.dead_indices # << >>

\* C10 (as claimed): a cell with no food in sensing range that does not eat ends
\* the tick with its energy lower by exactly ENERGY_LOSS_PER_SEC * dt.
C10_EnergyMonotonicity ==
    (last.kind = "tick") =>
        \A k \in 1..Len(last.log) :
            (last.log[k].target = 0 /\ ~last.log[k].ate)
            => /\ last.log[k].after = last.log[k].before - Loss(last.dt)
               /\ last.log[k].after < last.log[k].before

\* C10 (amended): a cell with no food in sensing range that does not eat ends the
\* tick, when it is not split in it, with energy min(MAX_ENERGY, before - loss), and
\* when it is split in it (its energy after the decay is SPLIT_ENERGY_THRESHOLD or
\* more, its radius CELL_MIN_RADIUS + 1 or more, and the tick's draw is below 0.02),
\* with min(MAX_ENERGY, before - loss) / 2 - SPLIT_ENERGY_COST / 2 and a child; both
\* are lower than before.
C10_Amended ==
    (last.kind = "tick") =>
        \A k \in 1..Len(last.log) :
            (last.log[k].target = 0 /\ ~last.log[k].ate)
            => /\ last.log[k].decayed
                    = Min(MAX_ENERGY * EnScale, last.log[k].before - Loss(last.dt))
               /\ ~last.log[k].tried => last.log[k].after = last.log[k].decayed
               /\ last.log[k].tried
                    => /\ last.log[k].decayed >= SPLIT_ENERGY_THRESHOLD * EnScale
                       /\ 2 * last.log[k].after
                            = last.log[k].decayed - SPLIT_ENERGY_COST * EnScale
                       /\ last.log[k].born
               /\ last.log[k].after < last.log[k].before

\* C10's case: a cell that begins a tick above MAX_ENERGY (it ate in the three ticks
\* before), senses no food, does not eat and is not split, and ends the tick at
\* MAX_ENERGY
C10_Witness ==
    /\ last.kind = "tick"
    /\ \E k \in 1..Len(last.log) :
           /\ last.log[k].before > MAX_ENERGY * EnScale
           /\ last.log[k].target = 0
           /\ ~last.log[k].ate
           /\ ~last.log[k].tried
           /\ last.log[k].after = MAX_ENERGY * EnScale

\* C3 (as claimed): split on a cell whose post-split energy
\* energy/2 - SPLIT_ENERGY_COST/2 would be below 5 returns no child and leaves the
\* cell's energy as it was before the call.
C3_SplitRefund ==
    (last.kind = "split"
     /\ last.before.energy - SPLIT_ENERGY_COST * EnScale < 2 * 5 * EnScale)
    => /\ ~last.ok
       /\ last.children = << >>
       /\ cells[last.i].energy = last.before.energy

\* C4: split on a cell with energy e, e/2 - SPLIT_ENERGY_COST/2 >= 5, returns one
\* child, and parent and child both end with e/2 - SPLIT_ENERGY_COST/2.
C4_SplitSuccess ==
    (last.kind = "split"
     /\ last.before.energy - SPLIT_ENERGY_COST * EnScale >= 2 * 5 * EnScale)
    => /\ last.ok
       /\ Len(last.children) = 1
       /\ 2 * cells[last.i].energy = last.before.energy - SPLIT_ENERGY_COST * EnScale
       /\ 2 * last.children[1].energy = last.before.energy - SPLIT_ENERGY_COST * EnScale
       /\ cells[Len(cells)] = last.children[1]

\* C4's case: e = 65 gives a child, and 17.5 and 17.5
C4_Witness ==
    /\ last.kind = "split"
    /\ last.ok
    /\ last.before.energy = 65 * EnScale
    /\ 2 * cells[last.i].energy = 35 * EnScale
    /\ 2 * last.children[1].energy = 35 * EnScale

\* C7 (as claimed): a spawn request made when the food collection holds more than
\* MAX_FOOD items leaves the food collection unchanged.
C7_FoodCap ==
    (last.kind = "spawn" /\ Len(last.prefoods) > MAX_FOOD) => foods = last.prefoods

\* C8: after Cell.update the cell lies within the margin of the world rectangle.
C8_BoundaryContainment ==
    (last.kind = "update") =>
        /\ MARGIN * PosScale <= cells[last.i].x
        /\ cells[last.i].x <= (WIDTH - MARGIN) * PosScale
        /\ MARGIN * PosScale <= cells[last.i].y
        /\ cells[last.i].y <= (HEIGHT - MARGIN) * PosScale

\* C8's case: an update of a cell that ended beyond the bottom and right margins
\* and was put back on both
C8_Witness ==
    /\ last.kind = "update"
    /\ last.hit
    /\ last.before.x > (WIDTH - MARGIN) * PosScale
    /\ last.before.y > (HEIGHT - MARGIN) * PosScale
    /\ cells[last.i].x = (WIDTH - MARGIN) * PosScale
    /\ cells[last.i].y = (HEIGHT - MARGIN) * PosScale

\* C9 (as claimed): in an update that senses a food target the heading changes by
\* at most CELL_MAX_TURN.
C9_SteeringBound ==
    (last.kind = "update" /\ last.target # 0)
    => Abs(cells[last.i].angle - last.before.angle) <= CELL_MAX_TURN

\* C9 (amended): in an update that senses a food target and in which no wall test
\* fires, the heading changes by at most CELL_MAX_TURN.
C9_Amended ==
    (last.kind = "update" /\ last.target # 0 /\ ~last.hit)
    => Abs(cells[last.i].angle - last.before.angle) <= CELL_MAX_TURN

\* C9's case: the target lies directly behind the heading (heading 0, target on the
\* same row to the left), no wall test fires, and the heading turned by exactly
\* CELL_MAX_TURN
C9_Witness ==
    /\ last.kind = "update"
    /\ last.target # 0
    /\ ~last.hit
    /\ last.before.angle = 0
    /\ last.prefoods[last.target].y = last.before.y
    /\ last.prefoods[last.target].x < last.before.x
    /\ Abs(cells[last.i].angle - last.before.angle) = CELL_MAX_TURN

\* C11: a frame processed while the pause flag is set changes no cell's position,
\* heading, energy or trail, adds and removes no cell, eats no food and leaves the
\* birth counter as it was.
C11_PauseNoOp ==
    (last.kind = "paused") =>
        /\ Len(cells) = Len(last.pre)
        /\ \A k \in 1..Len(cells) :
               /\ cells[k].id = last.pre[k].id
               /\ cells[k].x = last.pre[k].x
               /\ cells[k].y = last.pre[k].y
               /\ cells[k].angle = last.pre[k].angle
               /\ cells[k].energy = last.pre[k].energy
               /\ cells[k].trail = last.pre[k].trail
        /\ foods = last.prefoods
        /\ total_births = last.prebirths

\* C11's case: a paused frame with time elapsed, over cells that an earlier frame
\* had moved
C11_Witness ==
    /\ last.kind = "paused"
    /\ dt > 0
    /\ cells # << >>
    /\ \A k \in 1..Len(cells) : cells[k].trail # << >>

\* C12: handling the reset event leaves exactly INITIAL_CELLS cells, none of them a
\* cell from before, an empty food collection and a birth counter of 0, and leaves
\* the pause flag and the speed multiplier as they were.
C12_Reset ==
    (last.kind = "reset") =>
        /\ Len(cells) = INITIAL_CELLS
        /\ \A k \in 1..Len(cells) : \A j \in 1..Len(last.pre) : cells[k].id # last.pre[j].id
        /\ \A k \in 1..Len(cells) :
               /\ cells[k].trail = << >>
               /\ cells[k].x >= 50 * PosScale /\ cells[k].x <= (WIDTH - 50) * PosScale
               /\ cells[k].y >= 50 * PosScale /\ cells[k].y <= (HEIGHT - 50) * PosScale
        /\ foods = << >>
        /\ total_births = 0
        /\ paused = last.prepaused
        /\ speed_multiplier = last.prespeed

\* C12's case: a reset of a world that held food and had seen a birth
C12_Witness ==
    /\ last.kind = "reset"
    /\ last.prefoods # << >>
    /\ last.prebirths > 0
    /\ Len(last.pre) # INITIAL_CELLS

\* C13: in every unpaused tick the birth counter grows by exactly the number of
\* children appended to the live collection in that tick, and at all times
\* population = INITIAL_CELLS + total_births - (cells removed as dead), counted
\* since the last reset.
C13_BirthAccounting ==
    /\ Len(cells) = INITIAL_CELLS + total_births - removed
    /\ (last.kind = "tick") =>
           /\ total_births - last.prebirths = Len(last.new_cells)
           /\ Len(cells) = Len(last.pre) - Len(last.dead_indices) + Len(last.new_cells)
           /\ \A j \in 1..Len(last.new_cells) :
                  cells[Len(cells) - Len(last.new_cells) + j].id = last.new_cells[j].id

\* C13's case: a tick with a birth in a world that has lost a cell
C13_Witness ==
    /\ last.kind = "tick"
    /\ last.new_cells # << >>
    /\ removed > 0
    /\ total_births > 0

\* C14: one update removes at most one food item and raises the cell's energy by at
\* most ENERGY_FROM_FOOD; the item removed is the first in collection order within
\* eating range of the cell's new position, and the other items stay, in order.
C14_OneFoodPerUpdate ==
    (last.kind = "update") =>
        LET c == cells[last.i]
            F == last.prefoods
            e == last.eaten
        IN  /\ Len(foods) >= Len(F) - 1
            /\ c.energy - last.before.energy <= ENERGY_FROM_FOOD * EnScale
            /\ (e = 0) <=> (\A j \in 1..Len(F) : ~InEatRange(c, F[j]))
            /\ (e = 0) => (foods = F /\ ~last.ate)
            /\ (e # 0) =>
                   /\ last.ate
                   /\ e \in 1..Len(F)
                   /\ InEatRange(c, F[e])
                   /\ \A j \in 1..(e - 1) : ~InEatRange(c, F[j])
                   /\ Len(foods) = Len(F) - 1
                   /\ \A j \in 1..Len(foods) : foods[j] = IF j < e THEN F[j] ELSE F[j + 1]
                   /\ c.energy = Min(MAX_ENERGY * EnScale, last.before.energy - Loss(last.dt))
                                   + ENERGY_FROM_FOOD * EnScale

\* C14's case: two items within eating range; the first in order is eaten though
\* the second is nearer and is the steering target
C14_Witness ==
    /\ last.kind = "update"
    /\ Len(last.prefoods) = 2
    /\ last.eaten = 1
    /\ last.target = 2
    /\ InEatRange(cells[last.i], last.prefoods[2])
    /\ Len(foods) = 1
    /\ foods[1] = last.prefoods[2]

\* squared distance from where a cell stood to a food item, in position units
SenseDist(b, f) == (f.x - b.x) * (f.x - b.x) + (f.y - b.y) * (f.y - b.y)
SenseRange == (CELL_SENSE_RADIUS * PosScale) * (CELL_SENSE_RADIUS * PosScale)
\* is the food item f within CELL_SENSE_RADIUS of where the cell stood (an item
\* farther than that along one axis is not; SenseDist is taken only of the others)
InSense(b, f) ==
    /\ f.x - b.x <= CELL_SENSE_RADIUS * PosScale
    /\ b.x - f.x <= CELL_SENSE_RADIUS * PosScale
    /\ f.y - b.y <= CELL_SENSE_RADIUS * PosScale
    /\ b.y - f.y <= CELL_SENSE_RADIUS * PosScale
    /\ SenseDist(b, f) <= SenseRange

\* C15: the steering target of an update is a food item within CELL_SENSE_RADIUS of
\* the cell whose squared distance is minimal among all items (every item out of
\* range being farther than it), the earliest of those equally near; there is no
\* target iff no item lies within CELL_SENSE_RADIUS, and then the heading takes the
\* random-walk step.
C15_NearestTarget ==
    (last.kind = "update") =>
        LET b == last.before
            F == last.prefoods
            t == last.target
        IN  /\ (t = 0) <=> (\A j \in 1..Len(F) : ~InSense(b, F[j]))
            /\ (t # 0) =>
                   /\ t \in 1..Len(F)
                   /\ InSense(b, F[t])
                   /\ \A j \in 1..Len(F) :
                          InSense(b, F[j]) => SenseDist(b, F[j]) >= SenseDist(b, F[t])
                   /\ \A j \in 1..(t - 1) :
                          InSense(b, F[j]) => SenseDist(b, F[j]) > SenseDist(b, F[t])
            /\ (t = 0 /\ ~last.hit) =>
                   /\ cells[last.i].angle - b.angle <= (2 * AngScale) \div 100
                   /\ b.angle - cells[last.i].angle <= (2 * AngScale) \div 100

\* C15's case: two items equally near and within range, the first of them chosen
C15_Witness ==
    /\ last.kind = "update"
    /\ Len(last.prefoods) = 2
    /\ InSense(last.before, last.prefoods[1])
    /\ InSense(last.before, last.prefoods[2])
    /\ SenseDist(last.before, last.prefoods[1]) = SenseDist(last.before, last.prefoods[2])
    /\ last.target = 1

\* C16: the child of a successful split has base_radius at least CELL_MIN_RADIUS and
\* at most its parent's base_radius, whatever the parent's breathing radius is at
\* the call; every cell has base_radius within [CELL_MIN_RADIUS, CELL_MAX_RADIUS].
C16_OffspringSize ==
    /\ \A k \in 1..Len(cells) :
           cells[k].base_radius >= CELL_MIN_RADIUS /\ cells[k].base_radius <= CELL_MAX_RADIUS
    /\ (last.kind = "split" /\ last.ok) =>
           /\ last.children[1].base_radius >= CELL_MIN_RADIUS
           /\ last.children[1].base_radius <= last.before.base_radius
           /\ cells[last.i].base_radius = last.before.base_radius

\* C16's case: a split of a cell whose breathing radius is above its base_radius
C16_Witness ==
    /\ last.kind = "split"
    /\ last.ok
    /\ last.before.radius > last.before.base_radius
    /\ last.children[1].base_radius < last.before.base_radius

\* C17: within the tick, split is attempted only on a cell whose energy after update
\* is at least SPLIT_ENERGY_THRESHOLD, so every attempt produces a child, and parent
\* and child both leave it with energy >= SPLIT_ENERGY_THRESHOLD/2 - SPLIT_ENERGY_COST/2.
C17_TickSplitNeverAborts ==
    (last.kind = "tick") =>
        \A k \in 1..Len(last.log) :
            last.log[k].tried =>
                /\ last.log[k].eaten_energy >= SPLIT_ENERGY_THRESHOLD * EnScale
                /\ last.log[k].born
                /\ 2 * last.log[k].after
                       >= (SPLIT_ENERGY_THRESHOLD - SPLIT_ENERGY_COST) * EnScale
                /\ \E j \in 1..Len(last.new_cells) :
                       /\ last.new_cells[j].id = last.log[k].child
                       /\ 2 * last.new_cells[j].energy
                              >= (SPLIT_ENERGY_THRESHOLD - SPLIT_ENERGY_COST) * EnScale
                       /\ last.new_cells[j].energy = last.log[k].after

\* C17's case: a tick in which a split was attempted, beside a cell with energy
\* below the threshold whose split trial succeeded but which was not split
C17_Witness ==
    /\ last.kind = "tick"
    /\ \E k \in 1..Len(last.log) : last.log[k].tried /\ last.log[k].born
    /\ \E k \in 1..Len(last.log) :
           ~last.log[k].tried /\ last.log[k].eaten_energy < SPLIT_ENERGY_THRESHOLD * EnScale

\* C18: whenever a frame begins or ends, every cell of the live collection has
\* energy > 0: the cells a tick updates and the cells a frame draws all have.
C18_LiveEnergyPositive ==
    /\ \A k \in 1..Len(cells) : cells[k].energy > 0
    /\ (last.kind = "tick") => \A k \in 1..Len(last.pre) : last.pre[k].energy > 0
    /\ (last.kind = "paused") => \A k \in 1..Len(last.pre) : last.pre[k].energy > 0

\* C18's case: a tick in which a cell's energy fell to 0 or below and a cell was
\* born, with cells left to draw
C18_Witness ==
    /\ last.kind = "tick"
    /\ \E k \in 1..Len(last.log) : last.log[k].after <= 0
    /\ last.new_cells # << >>
    /\ Len(cells) > Len(last.new_cells)

\* is a position within [margin, WIDTH - margin] x [margin, HEIGHT - margin]
InsideWorld(c) ==
    /\ c.x >= MARGIN * PosScale /\ c.x <= (WIDTH - MARGIN) * PosScale
    /\ c.y >= MARGIN * PosScale /\ c.y <= (HEIGHT - MARGIN) * PosScale

\* C19 (as claimed): after the update and the split of a cell, as one visit of the
\* tick makes them, the cell and the child born are both within
\* [margin, WIDTH - margin] x [margin, HEIGHT - margin].
C19_FrameContainment ==
    (last.kind = "split" /\ last.ok /\ last.before.trail # << >>) =>
        /\ InsideWorld(cells[last.i])
        /\ InsideWorld(last.children[1])

\* C19 (amended): every cell that has been updated at least once is within
\* [margin, WIDTH - margin] x [margin, HEIGHT - margin]; a child is placed within
\* 2 * (parent radius) of its parent on each axis, unclamped, and split leaves the
\* parent where it was.
C19_Amended ==
    /\ \A k \in 1..Len(cells) : (cells[k].trail # << >>) => InsideWorld(cells[k])
    /\ (last.kind = "split" /\ last.ok) =>
           /\ last.children[1].trail = << >>
           /\ last.children[1].x - last.before.x <= 2 * last.before.radius * PosScale
           /\ last.before.x - last.children[1].x <= 2 * last.before.radius * PosScale
           /\ last.children[1].y - last.before.y <= 2 * last.before.radius * PosScale
           /\ last.before.y - last.children[1].y <= 2 * last.before.radius * PosScale
           /\ cells[last.i].x = last.before.x
           /\ cells[last.i].y = last.before.y

\* C19's case: a cell updated at the left wall is split and its child lands left of
\* the margin
C19_Witness ==
    /\ last.kind = "split"
    /\ last.ok
    /\ last.before.trail # << >>
    /\ InsideWorld(cells[last.i])
    /\ last.children[1].x < MARGIN * PosScale

\* C20: the speed multiplier stays within [0.25, 4.0] in steps of 0.25 (1..16
\* quarters): UP adds a quarter up to 4.0, DOWN takes one off down to 0.25, reset and
\* pause leave it alone; the elapsed time of a frame is the clock's milliseconds
\* times the multiplier, never negative and positive whenever the clock's are.
C20_SpeedMultiplier ==
    /\ speed_multiplier >= 1
    /\ speed_multiplier <= 16
    /\ dt >= 0
    /\ (last.kind = "up") =>
           speed_multiplier = IF last.prespeed < 16 THEN last.prespeed + 1 ELSE 16
    /\ (last.kind = "down") =>
           speed_multiplier = IF last.prespeed > 1 THEN last.prespeed - 1 ELSE 1
    /\ (last.kind = "reset" \/ last.kind = "space") => speed_multiplier = last.prespeed
    /\ (last.kind = "clock") =>
           /\ dt = last.dt_ms * speed_multiplier
           /\ (last.dt_ms > 0) => (dt > 0)
           /\ (dt = 0) => (last.dt_ms = 0)

\* C20's case: UP pressed with the multiplier already at 4.0
C20_Witness ==
    /\ last.kind = "up"
    /\ last.prespeed = 16
    /\ speed_multiplier = 16

====
